---- MODULE Spec2Model ----
(***************************************************************************)
(* pytex: the document lifecycle of LaTeXDocument (src/pytex.py).          *)
(*                                                                         *)
(* The state is the Python process running scoped uses of LaTeXDocument    *)
(* one after the other: the module-level lists DEFAULT_OPTIONS and         *)
(* DEFAULT_PACKAGES, the caller's own lists, the LaTeXDocument instance,   *)
(* the text stream, the file system, the working directory and the        *)
(* position of the with-statement.                                         *)
(***************************************************************************)
EXTENDS Integers, Sequences, FiniteSets, TLC

(***************************************************************************)
(* Bounds of the model.                                                    *)
(***************************************************************************)
MaxUses == 2
MaxBody == 2
MaxCompile == 2

(***************************************************************************)
(* Paths.  A path component is a name split at its extension, so that     *)
(* str.replace(".tex", ".pdf") is a computation on it.  A path is a flag   *)
(* (absolute or relative) and a sequence of components; a resolved path    *)
(* is the sequence of components from the root.                            *)
(***************************************************************************)
D(s) == [stem |-> s, ext |-> ""]

F(s, e) == [stem |-> s, ext |-> e]

Abs(parts) == [abs |-> TRUE, parts |-> parts]

Rel(parts) == [abs |-> FALSE, parts |-> parts]

\* dst=None (and dst=""): falsy in `if self.dst:`
NoDst == Rel(<<>>)

truthy(p) == p.abs \/ p.parts # <<>>

\* os.path.join(a, b)
join(a, b) == IF b.abs THEN b ELSE [abs |-> a.abs, parts |-> a.parts \o b.parts]

\* os.path.basename(p)
basename(p) == IF p.parts = <<>> THEN Rel(<<>>) ELSE Rel(<<p.parts[Len(p.parts)]>>)

\* the replacement left out: the source file's own name
replace_nothing(p) == p

\* str.replace(".tex", ".pdf") on a path: every ".tex" is replaced
replace_tex_pdf(p) ==
    [abs |-> p.abs,
     parts |-> [i \in DOMAIN p.parts |->
                  IF p.parts[i].ext = ".tex"
                  THEN [stem |-> p.parts[i].stem, ext |-> ".pdf"]
                  ELSE p.parts[i]]]

\* the kernel's resolution of a path against the working directory
resolve(wd, p) == IF p.abs THEN p.parts ELSE wd \o p.parts

Parent(q) == SubSeq(q, 1, Len(q) - 1)

IsPrefix(a, b) == Len(a) <= Len(b) /\ SubSeq(b, 1, Len(a)) = a

\* os.path.isdir / os.path.isfile
isdir(wd, ds, p) == resolve(wd, p) \in ds

isfile(wd, fl, p) == resolve(wd, p) \in DOMAIN fl

(***************************************************************************)
(* The environment the program runs in.                                    *)
(***************************************************************************)
TmpRoot == <<D("tmp")>>

Work == <<D("work")>>

Home(user) == <<D("Users"), D(user)>>

NoLogin == "<no login>"

\* getdesktop(): os.getlogin() raises OSError without a controlling terminal
getdesktop(user) ==
    IF user = NoLogin
    THEN [exc |-> "OSError", path |-> NoDst]
    ELSE [exc |-> "", path |-> Abs(Home(user) \o <<D("Desktop")>>)]

FileStems == {"pytex_a", "pytex_b"}

\* tempfile.mkdtemp(): a name no earlier call returned (the n-th call's)
mkdtemp(n) == TmpRoot \o <<D("tmp" \o ToString(n))>>

OldContent == <<"old">>

TexContent == <<"tex">>

PdfContent(stem) == <<"%PDF", stem>>

Dirs0 ==
    {<<>>, TmpRoot, Work, Work \o <<D("out")>>,
     <<D("Users")>>, Home("u"), Home("u") \o <<D("Desktop")>>}

Files0(pre) ==
    LET base == (Work \o <<F("old", ".pdf")>>) :> OldContent
        desk == (Home("u") \o <<D("Desktop"), F("pytex_a", ".pdf")>>) :> OldContent
        out  == (Work \o <<D("out"), F("pytex_a", ".pdf")>>) :> OldContent
    IN  IF pre THEN base @@ desk @@ out ELSE base

(***************************************************************************)
(* Python lists and LaTeX arguments.                                       *)
(***************************************************************************)
\* x in list
In(x, list) == \E i \in DOMAIN list : list[i] = x

\* the index list.remove(x) deletes: that of the first occurrence
FirstIndex(x, list) == CHOOSE i \in DOMAIN list : list[i] = x /\ \A j \in 1..(i - 1) : list[j] # x

\* list.remove(x), for x in list
remove(list, x) ==
    LET i == FirstIndex(x, list)
    IN  SubSeq(list, 1, i - 1) \o SubSeq(list, i + 1, Len(list))

\* list.insert(0, x)
insert0(list, x) == <<x>> \o list

RECURSIVE JoinStr(_, _)
\* sep.join(list)
JoinStr(list, sep) ==
    IF list = <<>> THEN ""
    ELSE IF Len(list) = 1 THEN list[1]
    ELSE list[1] \o sep \o JoinStr(Tail(list), sep)

\* a bare label (a str) and a labelled-with-options argument (a dict)
Str(v) == [dict |-> FALSE, value |-> v, options |-> <<>>]

Dict(v, opts) == [dict |-> TRUE, value |-> v, options |-> opts]

\* "fullpage" in self.usepackages: a str equals no dict
InPackages(label, list) == \E i \in DOMAIN list : ~list[i].dict /\ list[i].value = label

formatarg(arg) ==
    IF arg.dict
    THEN "[" \o JoinStr(arg.options, ", ") \o "]{" \o arg.value \o "}"
    ELSE "{" \o arg.value \o "}"

DefaultOptions0 == <<"a4paper", "oneside", "onecolumn", "notitlepage", "reqno", "UKenglish">>

DefaultPackages0 ==
    <<Dict("inputenc", <<"utf8">>), Dict("fontenc", <<"T1">>), Str("textcomp"),
      Str("lmodern"), Str("microtype"), Str("babel"), Str("varioref"),
      Dict("hyperref", <<"pdftex">>),
      Dict("cleveref", <<"capitalize", "nameinlink", "noabbrev">>)>>

\* title=None, author=None: only their truth value is read (`if self.title:`)
None == ""

(***************************************************************************)
(* TeXFile: each method is the sequence of lines it writes.                *)
(***************************************************************************)
TeXFile_documentclass(documentclass, options) ==
    IF options # <<>>
    THEN <<"\\documentclass[" \o JoinStr(options, ", ") \o "]{" \o documentclass \o "}">>
    ELSE <<"\\documentclass{" \o documentclass \o "}">>

TeXFile_beginDocument == <<"\\begin{document}">>

TeXFile_endDocument == <<"\\end{document}">>

TeXFile_author(author) == <<"\\author{" \o author \o "}">>

TeXFile_title(title) == <<"\\title" \o formatarg(Str(title))>>

TeXFile_maketitle == <<"\\maketitle">>

TeXFile_newpage == <<"\\newpage">>

TeXFile_usepackages(pkgs) == [i \in DOMAIN pkgs |-> "\\usepackage" \o formatarg(pkgs[i])]

TeXFile_write(line) == <<line>>

TeXFile_writelines(lines) == lines

TeXFile_display(math) == <<"\\[ " \o math \o " \\]">>

TeXFile_equation(math, label, tag, numbered) ==
    IF numbered
    THEN <<"\\begin{equation}">>
         \o (IF label # None
             THEN <<"\\label{" \o label \o "}">>
                  \o (IF tag # None THEN <<"\\tag{" \o tag \o "}">> ELSE <<>>)
             ELSE <<>>)
         \o <<math, "\\end{equation}">>
    ELSE <<"\\begin{equation*}">>
         \o (IF label # None THEN <<"\\label{" \o label \o "}">> ELSE <<>>)
         \o <<math, "\\end{equation*}">>

TeXFile_quote(lines) == <<"\\begin{quote}">> \o lines \o <<"\\end{quote}">>

\* an emitter call of the body: [m |-> method, a |-> arguments]
Call(m, a) == [m |-> m, a |-> a]

\* figure(), tabular(), includeonly(): raise NotImplementedError
Unimplemented(call) == call.m \in {"figure", "tabular", "includeonly"}

Emit(call) ==
    CASE call.m = "write" -> TeXFile_write(call.a[1])
      [] call.m = "display" -> TeXFile_display(call.a[1])
      [] call.m = "equation" ->
            TeXFile_equation(call.a[1], call.a[2], call.a[3], call.a[4] = "numbered")
      [] call.m = "quote" -> TeXFile_quote(call.a)
      [] call.m = "newpage" -> TeXFile_newpage
      [] OTHER -> <<>>

(***************************************************************************)
(* LaTeXDocument: preamble assembly.                                       *)
(***************************************************************************)
SizeAndColumnTokens == <<"10pt", "11pt", "12pt", "onecolumn", "twocolumn">>

RECURSIVE RemoveTokens(_, _)
\* for opt in (...): if opt in self.options: self.options.remove(opt)
RemoveTokens(options, tokens) ==
    IF tokens = <<>> THEN options
    ELSE RemoveTokens(IF In(tokens[1], options) THEN remove(options, tokens[1]) ELSE options,
                      Tail(tokens))

\* _parseoptions on the list self.options names: the list as it leaves it, and the
\* exception raised
_parseoptions(options, fontsize, columns) ==
    LET sized == RemoveTokens(options, SizeAndColumnTokens) \o <<ToString(fontsize) \o "pt">>
    IN  IF columns = 1 THEN [exc |-> "", options |-> sized \o <<"onecolumn">>]
        ELSE IF columns = 2 THEN [exc |-> "", options |-> sized \o <<"twocolumn">>]
        ELSE [exc |-> "ValueError", options |-> sized]

\* _writepreamble, lines 296-298: the list self.usepackages names, as it leaves it
_fullpage(fullpage, usepackages) ==
    IF fullpage /\ ~InPackages("fullpage", usepackages)
    THEN insert0(usepackages, Str("fullpage"))
    ELSE usepackages

\* the author command written before the title command
_writepreamble_author_first(doc, docopts, usepackages) ==
    TeXFile_documentclass(doc.documentclass, docopts)
    \o TeXFile_usepackages(usepackages)
    \o TeXFile_writelines(doc.preamble)
    \o (IF doc.author # None THEN TeXFile_author(doc.author) ELSE <<>>)
    \o (IF doc.title # None THEN TeXFile_title(doc.title) ELSE <<>>)
    \o TeXFile_beginDocument
    \o (IF doc.title # None THEN TeXFile_maketitle ELSE <<>>)

\* _writepreamble: the lines written, given the lists after _parseoptions and the
\* full-page insertion
_writepreamble(doc, docopts, usepackages) ==
    TeXFile_documentclass(doc.documentclass, docopts)
    \o TeXFile_usepackages(usepackages)
    \o TeXFile_writelines(doc.preamble)
    \o (IF doc.title # None THEN TeXFile_title(doc.title) ELSE <<>>)
    \o (IF doc.author # None THEN TeXFile_author(doc.author) ELSE <<>>)
    \o TeXFile_beginDocument
    \o (IF doc.title # None THEN TeXFile_maketitle ELSE <<>>)

(***************************************************************************)
(* The file system: fs.dirs is the set of directories, fs.files maps each  *)
(* regular file to its content (a sequence of lines).                      *)
(***************************************************************************)
Restrict(f, S) == [q \in S |-> f[q]]

exists(fs, q) == q \in fs.dirs \/ q \in DOMAIN fs.files

\* opening a file for writing: created or truncated, in an existing directory
WriteFile(fs, q, content) ==
    [dirs |-> fs.dirs, files |-> (q :> content) @@ fs.files]

\* shutil.rmtree(root), as TemporaryDirectory.cleanup() runs it
rmtree(fs, root) ==
    [dirs |-> {d \in fs.dirs : ~IsPrefix(root, d)},
     files |-> Restrict(fs.files, {q \in DOMAIN fs.files : ~IsPrefix(root, q)})]

\* os.rename(src, dst) of a regular file onto a path that is no directory
rename(fs, src, dst) ==
    IF src \notin DOMAIN fs.files \/ Parent(dst) \notin fs.dirs
    THEN [exc |-> "FileNotFoundError", fs |-> fs]
    ELSE IF src = dst THEN [exc |-> "", fs |-> fs]
    ELSE [exc |-> "",
          fs |-> [dirs |-> fs.dirs,
                  files |-> (dst :> fs.files[src])
                            @@ Restrict(fs.files, DOMAIN fs.files \ {src, dst})]]

\* shutil.move(src, dst), src and dst resolved against the working directory wd
shutil_move(wd, fs, src, dst) ==
    LET s == resolve(wd, src)
        d == resolve(wd, dst)
        real_dst == IF d \in fs.dirs THEN d \o basename(src).parts ELSE d
    IN  IF d \in fs.dirs /\ exists(fs, real_dst)
        THEN [exc |-> "shutil.Error", fs |-> fs]
        ELSE rename(fs, s, real_dst)

(***************************************************************************)
(* LaTeXDocument: compilation and relocation.                              *)
(***************************************************************************)
\* one pass too many: range(n + 1)
range_one_more(n) == IF n + 1 > 0 THEN n + 1 ELSE 0

\* len(range(n)): the passes of `for _ in range(self.ncompile)`
range(n) == IF n > 0 THEN n ELSE 0

\* subprocess.call(["pdflatex", name]) in the working directory wd: the compiler
\* cannot be started, runs and fails, or runs and writes the artifact
PdflatexOutcomes == {"nolaunch", "nopdf", "pdf"}

pdflatex(wd, fs, name, outcome) ==
    LET stem == basename(name).parts[1].stem
        logged == WriteFile(fs, wd \o <<F(stem, ".log")>>, <<"log">>)
    IN  CASE outcome = "nolaunch" -> [exc |-> "FileNotFoundError", fs |-> fs]
          [] outcome = "nopdf" -> [exc |-> "", fs |-> logged]
          [] OTHER -> [exc |-> "",
                       fs |-> WriteFile(logged, wd \o <<F(stem, ".pdf")>>,
                                        PdfContent(stem))]

AlreadyExists == "IOError: already exists, instructed not to overwrite"

\* _movepdf, lines 321-331 and 347-354: into the directory dir
_movepdf_into(doc, mainfile, wd, fs, dir) ==
    LET pdfname == replace_tex_pdf(basename(mainfile))
        outpath == join(dir, pdfname)
    IN  IF isfile(wd, fs.files, outpath) /\ ~doc.overwrite
        THEN [exc |-> AlreadyExists, fs |-> fs]
        ELSE shutil_move(wd, fs, pdfname, outpath)

\* _movepdf
_movepdf(doc, mainfile, wd, fs, user) ==
    IF truthy(doc.dst)
    THEN IF isdir(wd, fs.dirs, doc.dst)
         THEN _movepdf_into(doc, mainfile, wd, fs, doc.dst)
         ELSE IF isfile(wd, fs.files, doc.dst)
         THEN IF doc.overwrite
              THEN shutil_move(wd, fs, replace_tex_pdf(mainfile), doc.dst)
              ELSE [exc |-> AlreadyExists, fs |-> fs]
         ELSE shutil_move(wd, fs, replace_tex_pdf(mainfile), doc.dst)
    ELSE LET desktop == getdesktop(user)
         IN  IF desktop.exc # ""
             THEN [exc |-> desktop.exc, fs |-> fs]
             ELSE _movepdf_into(doc, mainfile, wd, fs, desktop.path)

(***************************************************************************)
(* State.                                                                  *)
(*   DEFAULT_OPTIONS, DEFAULT_PACKAGES  the module-level lists             *)
(*   callerOptions, callerPackages      the lists the caller passed        *)
(*   self              the instance: its settings; options_default and     *)
(*                     usepackages_default say which list self.options and *)
(*                     self.usepackages name                               *)
(*   tmpdir, mainfile  self._tmpdir.name, self._mainfile.name              *)
(*   texfile           the stream: the lines written, and whether closed   *)
(*   fs, cwd, user     file system, working directory, os.getlogin()       *)
(*   pc, exc, npass    position of the with-statement, the exception that  *)
(*                     left __enter__ or __exit__, compiler passes made    *)
(*   bodyExc           the exception the body raised                       *)
(*   uses              scoped uses started so far                          *)
(* History: calls (emitter calls of the body), log (steps of __exit__),    *)
(* atEntry and atMove (what held when __enter__ and _movepdf began).       *)
(***************************************************************************)
VARIABLES DEFAULT_OPTIONS, DEFAULT_PACKAGES, callerOptions, callerPackages,
          self, tmpdir, mainfile, texfile, fs, cwd, user,
          pc, exc, npass, bodyExc, uses, calls, log, atEntry, atMove

vars == <<DEFAULT_OPTIONS, DEFAULT_PACKAGES, callerOptions, callerPackages,
          self, tmpdir, mainfile, texfile, fs, cwd, user,
          pc, exc, npass, bodyExc, uses, calls, log, atEntry, atMove>>

lists == <<DEFAULT_OPTIONS, DEFAULT_PACKAGES, callerOptions, callerPackages>>

\* the list self.options names, and the list self.usepackages names
SelfOptions == IF self.options_default THEN DEFAULT_OPTIONS ELSE callerOptions

SelfPackages == IF self.usepackages_default THEN DEFAULT_PACKAGES ELSE callerPackages

NoExc == [kind |-> "", at |-> ""]

NoSnapshot == [cwd |-> <<>>, fs |-> [dirs |-> {}, files |-> <<>>],
               options |-> <<>>, usepackages |-> <<>>]

\* LaTeXDocument(): the defaults of __init__
DefaultSettings ==
    [title |-> None, author |-> None, documentclass |-> "amsart",
     options_default |-> TRUE, options |-> <<>>,
     usepackages_default |-> TRUE, usepackages |-> <<>>,
     preamble |-> <<>>, fontsize |-> 11, columns |-> 1, fullpage |-> FALSE,
     ncompile |-> 2, dst |-> NoDst, overwrite |-> FALSE]

InitEnv(pres, users) ==
    /\ DEFAULT_OPTIONS = DefaultOptions0
    /\ DEFAULT_PACKAGES = DefaultPackages0
    /\ callerOptions = <<>>
    /\ callerPackages = <<>>
    /\ self = DefaultSettings
    /\ tmpdir = <<>>
    /\ mainfile = NoDst
    /\ texfile = [lines |-> <<>>, closed |-> TRUE]
    /\ \E pre \in pres : fs = [dirs |-> Dirs0, files |-> Files0(pre)]
    /\ cwd = Work
    /\ user \in users
    /\ pc = "idle"
    /\ exc = NoExc
    /\ npass = 0
    /\ bodyExc = ""
    /\ uses = 0
    /\ calls = <<>>
    /\ log = <<>>
    /\ atEntry = NoSnapshot
    /\ atMove = [dirs |-> {}, files |-> <<>>]

(***************************************************************************)
(* LaTeXDocument(...): __init__ stores the settings; self.options and      *)
(* self.usepackages name the caller's lists, or the module-level ones.     *)
(***************************************************************************)
Construct(cfg) ==
    /\ pc \in {"idle", "done", "raised"}
    /\ uses < MaxUses
    /\ uses' = uses + 1
    /\ self' = cfg
    /\ callerOptions' = IF cfg.options_default THEN <<>> ELSE cfg.options
    /\ callerPackages' = IF cfg.usepackages_default THEN <<>> ELSE cfg.usepackages
    /\ tmpdir' = <<>>
    /\ mainfile' = NoDst
    /\ texfile' = [lines |-> <<>>, closed |-> TRUE]
    /\ pc' = "constructed"
    /\ exc' = NoExc
    /\ npass' = 0
    /\ bodyExc' = ""
    /\ calls' = <<>>
    /\ log' = <<>>
    /\ atEntry' = NoSnapshot
    /\ atMove' = [dirs |-> {}, files |-> <<>>]
    /\ UNCHANGED <<DEFAULT_OPTIONS, DEFAULT_PACKAGES, fs, cwd, user>>

(***************************************************************************)
(* __enter__: the workspace, the source file, the preamble.                *)
(***************************************************************************)
Enter ==
    /\ pc = "constructed"
    /\ \E s \in FileStems :
          LET dir  == mkdtemp(uses)
              file == dir \o <<F(s, ".tex")>>
              po   == _parseoptions(SelfOptions, self.fontsize, self.columns)
              pkgs == _fullpage(self.fullpage, SelfPackages)
          IN  /\ ~exists(fs, dir)
              /\ tmpdir' = dir
              /\ mainfile' = Abs(file)
              /\ fs' = WriteFile([dirs |-> fs.dirs \cup {dir}, files |-> fs.files],
                                 file, TexContent)
              /\ atEntry' = [cwd |-> cwd, fs |-> fs,
                             options |-> SelfOptions, usepackages |-> SelfPackages]
              /\ IF self.options_default
                 THEN DEFAULT_OPTIONS' = po.options /\ UNCHANGED callerOptions
                 ELSE callerOptions' = po.options /\ UNCHANGED DEFAULT_OPTIONS
              /\ IF po.exc # ""
                 THEN /\ texfile' = [lines |-> <<>>, closed |-> FALSE]
                      /\ exc' = [kind |-> po.exc, at |-> "__enter__"]
                      /\ pc' = "raised"
                      /\ UNCHANGED <<DEFAULT_PACKAGES, callerPackages>>
                 ELSE /\ IF self.usepackages_default
                         THEN DEFAULT_PACKAGES' = pkgs /\ UNCHANGED callerPackages
                         ELSE callerPackages' = pkgs /\ UNCHANGED DEFAULT_PACKAGES
                      /\ texfile' = [lines |-> _writepreamble(self, po.options, pkgs),
                                     closed |-> FALSE]
                      /\ pc' = "body"
                      /\ UNCHANGED exc
    /\ UNCHANGED <<self, cwd, user, npass, bodyExc, uses, calls, log, atMove>>

(***************************************************************************)
(* The body of the with-statement: emitter calls, one after the other.     *)
(***************************************************************************)
BodyCall(c) ==
    /\ pc = "body"
    /\ Len(calls) < MaxBody
    /\ calls' = Append(calls, c)
    /\ IF Unimplemented(c)
       THEN /\ bodyExc' = "NotImplementedError"
            /\ pc' = "exit"
            /\ UNCHANGED texfile
       ELSE /\ texfile' = [texfile EXCEPT !.lines = @ \o Emit(c)]
            /\ UNCHANGED <<bodyExc, pc>>
    /\ UNCHANGED <<lists, self, tmpdir, mainfile, fs, cwd, user, exc, npass, uses,
                   log, atEntry, atMove>>

BodyEnd ==
    /\ pc = "body"
    /\ pc' = "exit"
    /\ UNCHANGED <<lists, self, tmpdir, mainfile, texfile, fs, cwd, user, exc, npass,
                   bodyExc, uses, calls, log, atEntry, atMove>>

(***************************************************************************)
(* __exit__, statement by statement.                                       *)
(***************************************************************************)
\* self._texfile.endDocument()
ExitEndDocument ==
    /\ pc = "exit"
    /\ texfile' = [texfile EXCEPT !.lines = @ \o TeXFile_endDocument]
    /\ log' = Append(log, "endDocument")
    /\ pc' = "close"
    /\ UNCHANGED <<lists, self, tmpdir, mainfile, fs, cwd, user, exc, npass, bodyExc,
                   uses, calls, atEntry, atMove>>

\* self._mainfile.file.close()
ExitClose ==
    /\ pc = "close"
    /\ texfile' = [texfile EXCEPT !.closed = TRUE]
    /\ log' = Append(log, "close")
    /\ pc' = "_compilepdf"
    /\ UNCHANGED <<lists, self, tmpdir, mainfile, fs, cwd, user, exc, npass, bodyExc,
                   uses, calls, atEntry, atMove>>

\* _compilepdf: os.chdir(self._tmpdir.name)
CompileChdir ==
    /\ pc = "_compilepdf"
    /\ cwd' = tmpdir
    /\ npass' = 0
    /\ log' = Append(log, "chdir")
    /\ pc' = IF range(self.ncompile) = 0 THEN "_movepdf" ELSE "pdflatex"
    /\ UNCHANGED <<lists, self, tmpdir, mainfile, texfile, fs, user, exc, bodyExc,
                   uses, calls, atEntry, atMove>>

\* _compilepdf: one pass of the loop
CompilePass ==
    /\ pc = "pdflatex"
    /\ \E outcome \in PdflatexOutcomes :
          LET r == pdflatex(cwd, fs, mainfile, outcome)
          IN  /\ fs' = r.fs
              /\ IF r.exc # ""
                 THEN /\ exc' = [kind |-> r.exc, at |-> "_compilepdf"]
                      /\ pc' = "raised"
                 ELSE /\ UNCHANGED exc
                      /\ pc' = IF npass + 1 = range(self.ncompile)
                               THEN "_movepdf" ELSE "pdflatex"
    /\ npass' = npass + 1
    /\ log' = Append(log, "pdflatex")
    /\ UNCHANGED <<lists, self, tmpdir, mainfile, texfile, cwd, user, bodyExc,
                   uses, calls, atEntry, atMove>>

\* self._movepdf()
MovePdf ==
    /\ pc = "_movepdf"
    /\ LET r == _movepdf(self, mainfile, cwd, fs, user)
       IN  /\ fs' = r.fs
           /\ IF r.exc # ""
              THEN exc' = [kind |-> r.exc, at |-> "_movepdf"] /\ pc' = "raised"
              ELSE UNCHANGED exc /\ pc' = "cleanup"
    /\ atMove' = fs
    /\ log' = Append(log, "_movepdf")
    /\ UNCHANGED <<lists, self, tmpdir, mainfile, texfile, cwd, user, npass, bodyExc,
                   uses, calls, atEntry>>

\* self._tmpdir.cleanup(); __exit__ returns None, so the body's exception goes on
Cleanup ==
    /\ pc = "cleanup"
    /\ fs' = rmtree(fs, tmpdir)
    /\ log' = Append(log, "cleanup")
    /\ pc' = "done"
    /\ UNCHANGED <<lists, self, tmpdir, mainfile, texfile, cwd, user, exc, npass,
                   bodyExc, uses, calls, atEntry, atMove>>

Exit == ExitEndDocument \/ ExitClose \/ CompileChdir \/ CompilePass \/ MovePdf \/ Cleanup

(***************************************************************************)
(* The programs checked.                                                   *)
(***************************************************************************)
Dsts ==
    {NoDst,
     Abs(Work \o <<D("out")>>), Rel(<<D("out")>>),
     Abs(Work \o <<F("old", ".pdf")>>), Rel(<<F("old", ".pdf")>>),
     Abs(Work \o <<D("new")>>), Rel(<<D("new")>>),
     Abs(Work \o <<D("nodir"), F("new", ".pdf")>>)}

\* one scoped use: every destination, overwrite policy and pass count
ConfigsOnce ==
    {[DefaultSettings EXCEPT !.title = t, !.columns = c, !.ncompile = n,
                             !.dst = d, !.overwrite = o] :
        t \in {None, "Hello"}, c \in {1, 3}, n \in 0..MaxCompile,
        d \in Dsts, o \in BOOLEAN}

CallsOnce == {Call("write", <<"Hello World">>), Call("figure", <<>>)}

\* a script with one with-statement
ConstructOnce(cfg) == pc = "idle" /\ Construct(cfg)

NextOnce ==
    \/ \E cfg \in ConfigsOnce : ConstructOnce(cfg)
    \/ Enter
    \/ \E c \in CallsOnce : BodyCall(c)
    \/ BodyEnd
    \/ Exit

InitOnce == InitEnv(BOOLEAN, {"u", NoLogin})

SpecOnce == InitOnce /\ [][NextOnce]_vars

\* scoped uses one after the other: the settings of the examples, and of the
\* option and package lists
Configs ==
    {DefaultSettings,
     [DefaultSettings EXCEPT !.title = "Basic Arithmetic", !.author = "Python",
                             !.documentclass = "article",
                             !.usepackages_default = FALSE,
                             !.usepackages = <<Str("amsmath")>>,
                             !.fontsize = 12, !.ncompile = 1],
     [DefaultSettings EXCEPT !.fullpage = TRUE, !.fontsize = 12, !.ncompile = 0],
     [DefaultSettings EXCEPT !.fullpage = TRUE, !.title = "Hello", !.ncompile = 1,
                             !.usepackages_default = FALSE,
                             !.usepackages = <<Str("amsmath"), Dict("fullpage", <<"cm">>)>>],
     [DefaultSettings EXCEPT !.fullpage = TRUE, !.author = "Python", !.ncompile = 1,
                             !.usepackages_default = FALSE,
                             !.usepackages = <<Str("amsmath"), Str("fullpage")>>,
                             !.dst = Abs(Work \o <<D("new")>>), !.overwrite = TRUE],
     [DefaultSettings EXCEPT !.options_default = FALSE,
                             !.options = <<"10pt", "draft", "10pt">>,
                             !.columns = 2, !.ncompile = 1,
                             !.preamble = <<"\\newcommand{\\R}{\\mathbb{R}}">>,
                             !.dst = Abs(Work \o <<D("out")>>)],
     [DefaultSettings EXCEPT !.options_default = FALSE,
                             !.options = <<"twocolumn", "draft", "12pt">>,
                             !.fontsize = 10, !.title = "Hello", !.ncompile = 1,
                             !.dst = Abs(Work \o <<D("new")>>), !.overwrite = TRUE],
     [DefaultSettings EXCEPT !.columns = 3, !.ncompile = 1]}

Calls ==
    {Call("write", <<"Hello World">>),
     Call("equation", <<"E = mc^2", "eq:1", "*", "numbered">>),
     Call("figure", <<>>)}

Next ==
    \/ \E cfg \in Configs : Construct(cfg)
    \/ Enter
    \/ \E c \in Calls : BodyCall(c)
    \/ BodyEnd
    \/ Exit

Init == InitEnv({FALSE}, {"u"})

Spec == Init /\ [][Next]_vars

(***************************************************************************)
(* Vocabulary of the properties.                                           *)
(***************************************************************************)
\* control has left the scope: __enter__ raised, or __exit__ returned or raised
LeftScope == pc \in {"done", "raised"}

\* __enter__ returned: the preamble has been written
EnteredScope == pc \notin {"idle", "constructed"} /\ exc.at # "__enter__"

\* _movepdf has run (and returned or raised)
Relocated == In("_movepdf", log)

\* something of the workspace is left in the file system
WorkspaceExists == \E q \in fs.dirs \cup DOMAIN fs.files : IsPrefix(tmpdir, q)

\* the artifact's name: the source file's, with .pdf for .tex
ArtifactName == F(mainfile.parts[Len(mainfile.parts)].stem, ".pdf")

Artifact == PdfContent(ArtifactName.stem)

\* the destination as the caller wrote it: relative to the directory the
\* with-statement was entered in
CallerDst == resolve(atEntry.cwd, self.dst)

DesktopKnown == getdesktop(user).exc = ""

\* the target path of the four-branch policy, on the file system as relocation
\* found it
PolicyTarget ==
    IF ~truthy(self.dst) THEN getdesktop(user).path.parts \o <<ArtifactName>>
    ELSE IF CallerDst \in atMove.dirs THEN CallerDst \o <<ArtifactName>>
    ELSE CallerDst

PolicyTargetKnown == truthy(self.dst) \/ DesktopKnown

\* the destination named nothing when the scope was entered
FreshDst == truthy(self.dst) /\ ~exists(atEntry.fs, CallerDst)

FilesUnder(d) == {q \in DOMAIN fs.files : IsPrefix(d, q) /\ q # d}

(***************************************************************************)
(* C1.  Workspace cleanup: once control has left the scope (entry failed,  *)
(* or exit returned or raised) the temporary directory created on entry no *)
(* longer exists, on every error path.                                     *)
(***************************************************************************)
C1_WorkspaceCleanup == LeftScope => ~WorkspaceExists

(***************************************************************************)
(* C2.  No overwrite without permission: when overwrite is false and a     *)
(* file exists at the resolved target path, relocation raises "already     *)
(* exists", the artifact is not moved and the file is left untouched.      *)
(***************************************************************************)
C2_NoOverwriteWithoutPermission ==
    (Relocated /\ ~self.overwrite /\ PolicyTargetKnown
       /\ PolicyTarget \in DOMAIN atMove.files)
    => (pc = "raised" /\ exc.kind = AlreadyExists /\ fs = atMove)

\* the same, for destinations that do not depend on the working directory
C2_AbsoluteDestinations ==
    (self.dst.abs \/ ~truthy(self.dst)) => C2_NoOverwriteWithoutPermission

(***************************************************************************)
(* C3.  Destination resolution: when relocation does not raise, the        *)
(* artifact is at exactly the path the four-branch policy gives, under the *)
(* source file's name with .pdf for .tex, and no longer in the workspace.  *)
(***************************************************************************)
C3_DestinationResolution ==
    (Relocated /\ pc \in {"cleanup", "done"})
    => /\ PolicyTarget \in DOMAIN fs.files
       /\ fs.files[PolicyTarget] = Artifact
       /\ \A q \in DOMAIN fs.files : IsPrefix(tmpdir, q) => fs.files[q] # Artifact

\* the same, for destinations that do not depend on the working directory
C3_AbsoluteDestinations ==
    (self.dst.abs \/ ~truthy(self.dst)) => C3_DestinationResolution

C10_WorkingDirectoryPreserved == pc = "done" => cwd = atEntry.cwd

(***************************************************************************)
(* Vocabulary of the properties on the text.                               *)
(***************************************************************************)
\* list with every element of tokens removed
Without(list, tokens) == SelectSeq(list, LAMBDA o : ~In(o, tokens))

FontSizeToken == ToString(self.fontsize) \o "pt"

ColumnToken == IF self.columns = 1 THEN "onecolumn" ELSE "twocolumn"

RECURSIVE EmittedBy(_)
\* the output of the emitter calls cs, one call after the other
EmittedBy(cs) == IF cs = <<>> THEN <<>> ELSE Emit(cs[1]) \o EmittedBy(Tail(cs))

IsFullpage(arg) == arg.value = "fullpage"

Count(list, P(_)) == Cardinality({i \in DOMAIN list : P(list[i])})

\* the package-inclusion commands of the emitted text: they follow the
\* document-class command
EmittedPackages(n) == SubSeq(texfile.lines, 2, 1 + n)

\* the lists a use was given, as they were before any use touched them
BaselineOptions == IF self.options_default THEN DefaultOptions0 ELSE self.options

BaselinePackages == IF self.usepackages_default THEN DefaultPackages0 ELSE self.usepackages

(***************************************************************************)
(* C5.  Effective document-class options: the options emitted are the      *)
(* caller's with every font-size and column token removed, then the        *)
(* configured font-size token, then the column token; a column count other *)
(* than 1 or 2 raises during entry, before any text is written and before  *)
(* the compiler runs.                                                      *)
(***************************************************************************)
C5_EffectiveOptions ==
    pc \notin {"idle", "constructed"} =>
        IF self.columns \in {1, 2}
        THEN /\ EnteredScope
             /\ texfile.lines[1] =
                   TeXFile_documentclass(self.documentclass,
                       Without(atEntry.options, SizeAndColumnTokens)
                       \o <<FontSizeToken, ColumnToken>>)[1]
        ELSE /\ pc = "raised"
             /\ exc = [kind |-> "ValueError", at |-> "__enter__"]
             /\ texfile.lines = <<>>
             /\ npass = 0

(***************************************************************************)
(* C6.  Sequential uses do not interfere: each use gets a workspace and a  *)
(* source file of its own, a use leaves DEFAULT_OPTIONS and                *)
(* DEFAULT_PACKAGES unchanged, and the preamble a use emits is the one its *)
(* own configuration gives on the untouched baseline lists.                *)
(***************************************************************************)
C6_SequentialUsesIndependent ==
    /\ LeftScope => (DEFAULT_OPTIONS = DefaultOptions0 /\ DEFAULT_PACKAGES = DefaultPackages0)
    /\ pc \notin {"idle", "constructed"} =>
          (~exists(atEntry.fs, tmpdir) /\ ~exists(atEntry.fs, mainfile.parts))
    /\ EnteredScope =>
          LET expected ==
                 _writepreamble(self,
                     _parseoptions(BaselineOptions, self.fontsize, self.columns).options,
                     _fullpage(self.fullpage, BaselinePackages))
          IN  SubSeq(texfile.lines, 1, Len(expected)) = expected

\* the last conjunct alone: what a later use emits
C6_PreambleFromOwnConfiguration ==
    EnteredScope =>
       LET expected ==
              _writepreamble(self,
                  _parseoptions(BaselineOptions, self.fontsize, self.columns).options,
                  _fullpage(self.fullpage, BaselinePackages))
       IN  SubSeq(texfile.lines, 1, Len(expected)) = expected

(***************************************************************************)
(* C7.  Document text is the calls in order: once the stream is closed the *)
(* text is the document-class command, one package command per package in  *)
(* list order, the preamble lines, the title command if a title is set,    *)
(* the author command if an author is set, the begin-document command, the *)
(* title-rendering command if a title is set, the output of each emitter   *)
(* call of the body in call order, and one end-document command.           *)
(***************************************************************************)
C7_TextIsCallsInOrder ==
    In("close", log) =>
        texfile.lines =
            <<TeXFile_documentclass(self.documentclass, SelfOptions)[1]>>
            \o [i \in DOMAIN SelfPackages |-> "\\usepackage" \o formatarg(SelfPackages[i])]
            \o self.preamble
            \o (IF self.title # None THEN <<"\\title{" \o self.title \o "}">> ELSE <<>>)
            \o (IF self.author # None THEN <<"\\author{" \o self.author \o "}">> ELSE <<>>)
            \o <<"\\begin{document}">>
            \o (IF self.title # None THEN <<"\\maketitle">> ELSE <<>>)
            \o EmittedBy(calls)
            \o <<"\\end{document}">>

C7_Witness ==
    /\ In("close", log)
    /\ self.title # None
    /\ self.author # None
    /\ Len(calls) = 2
    /\ calls[1].m = "equation"
    /\ calls[2].m = "write"

(***************************************************************************)
(* C8.  Exit sequence ordering: on every scope exit, also when the body    *)
(* raised, the steps are, in this order and each at most once:             *)
(* end-document, close, change into the workspace, the compiler ncompile   *)
(* times, relocation, destruction of the workspace.  The compiler never    *)
(* runs on an open stream, the workspace is never destroyed before         *)
(* relocation, and an exit that returns has made every step.               *)
(***************************************************************************)
ExitSteps(n) ==
    <<"endDocument", "close", "chdir">> \o [i \in 1..n |-> "pdflatex"]
    \o <<"_movepdf", "cleanup">>

C8_ExitSequenceOrdering ==
    /\ IsPrefix(log, ExitSteps(self.ncompile))
    /\ pc = "done" => log = ExitSteps(self.ncompile)
    /\ In("pdflatex", log) => (texfile.closed /\ In(TeXFile_endDocument[1], texfile.lines))
    /\ (EnteredScope /\ ~WorkspaceExists) => Relocated

C8_Witness ==
    /\ pc = "done"
    /\ bodyExc = "NotImplementedError"
    /\ self.ncompile = 2
    /\ npass = 2

(***************************************************************************)
(* C9.  Full-page package: with the flag set, a full-page package is       *)
(* prepended if the list has none (as a bare label or as a label with      *)
(* options) and nothing is added if it has one, so the preamble includes   *)
(* it exactly once; with the flag unset the list is emitted as supplied.   *)
(***************************************************************************)
C9_FullpageExactlyOnce ==
    EnteredScope =>
        LET supplied == atEntry.usepackages
            expected == IF self.fullpage /\ Count(supplied, IsFullpage) = 0
                        THEN <<Str("fullpage")>> \o supplied
                        ELSE supplied
        IN  /\ SelfPackages = expected
            /\ EmittedPackages(Len(SelfPackages)) = TeXFile_usepackages(expected)
            /\ self.fullpage => Count(SelfPackages, IsFullpage) = 1

====
